---- MODULE Spec2Model ----
(***************************************************************************)
(* Model of subdomain_bruteforce.py: the Model class (dns_checker,         *)
(* bruteforce, thread_limiter, check_domain), the Controller's             *)
(* event_listener threads and the word generator generate_word.            *)
(*                                                                         *)
(* Strings are sequences of one-character strings.  Every thread is a      *)
(* program counter; one action is one step of a thread between two points  *)
(* where another thread can be scheduled.                                  *)
(***************************************************************************)
EXTENDS Integers, Sequences, FiniteSets, TLC

\* ------------------------------------------------------------------ bounds
MaxWords == 2            \* longest candidate list handed to Model
MaxThreadLimit == 2      \* largest thread_limit tried
MaxLetters == 2          \* largest letter_count given to generate_word
MaxResume == 3           \* longest start_from given to generate_word
MaxFile == 4             \* longest file (in characters) read as a word list

\* ------------------------------------------------------------- environment
base_domain == <<"d">>

StripChars == {" ", "\n"}

RECURSIVE lstrip(_)
lstrip(s) == IF s # <<>> /\ Head(s) \in StripChars THEN lstrip(Tail(s)) ELSE s

RECURSIVE rstrip(_)
rstrip(s) ==
    IF s # <<>> /\ s[Len(s)] \in StripChars
    THEN rstrip(SubSeq(s, 1, Len(s) - 1))
    ELSE s

\* str.strip(" \n")
strip(s) == rstrip(lstrip(s))

\* f"{word}.{self.base_domain}".strip(" \n")
subdomain(word) == strip(word \o <<".">> \o base_domain)

\* The labels a candidate list is made of.
Labels == {<<"a">>, <<" ", "a">>, <<"b">>, <<"c">>}

Names == {subdomain(w) : w \in Labels}

\* What socket.gethostbyname does for each candidate name: it returns, it
\* raises socket.gaierror, or it raises another exception (UnicodeError for
\* an empty or over-long label, OSError, ...).  The answer per name is fixed.
gethostbyname(name) ==
    IF name = <<"a", ".", "d">> THEN "EXISTS"
    ELSE IF name = <<"b", ".", "d">> THEN "GAIERROR"
    ELSE "OTHER"

\* All sequences over S of length at most n.
SeqsUpTo(S, n) == UNION {[1..k -> S] : k \in 0..n}

Listeners == {"dns_working", "dns_not_working"}

\* --------------------------------------------------------------- variables
VARIABLES
    words,                     \* the candidate list (self.words)
    thread_limit,              \* self.thread_limit
    view,                      \* TRUE iff an observer is attached
    controller,                \* TRUE iff the Model is run by a Controller
    source,                    \* "ok", "file_missing" or "bad_resume"
    found_subdomains,          \* self.found_subdomains
    checked_subdomains_count,  \* self.checked_subdomains_count
    latest,                    \* self.latest
    subdomain_threads,         \* self.subdomain_threads (attempt indices)
    dns_working,               \* Event self.dns_working
    dns_not_working,           \* Event self.dns_not_working
    complete_bruteforcing,     \* Event self.complete_bruteforcing
    bfPc,                      \* position of the bruteforce thread
    idx,                       \* number of words taken from self.words
    joining,                   \* the thread bruteforce is joining (0: none)
    drainLeft,                 \* threads the final join loop has yet to visit
    attempt,                   \* position of each check_domain thread
    checkerPc,                 \* position of the dns_checker thread
    listenerPc,                \* position of each event_listener thread
    baseProbed,                \* a probe of the base domain has been made
    lastBase,                  \* outcome of the latest base-domain probe
    everExists,                \* a base-domain probe has returned EXISTS
    foundCalls,                \* view.found_subdomain calls, per name
    completedCalls,            \* view.completed calls
    completedArg,              \* the set view.completed was given
    firedInPeriod,             \* listener callbacks in the current set-period
    unreported,                \* the event was set (from clear) since the
                               \* listener's last callback
    letter_count,              \* generate_word: letter_count
    start_from,                \* generate_word: start_from (or None)
    alphabet,                  \* generate_word: alphabet
    letters,                   \* generate_word: the list of lists of chars
    gi,                        \* generate_word: the loop index i
    genPc,                     \* generate_word: position
    comb,                      \* itertools.product: index of the current
                               \* element in each pool
    yielded,                   \* the words the generator has produced
    file_content,              \* get_words_from_file: the characters of f
    file_start_from,           \* get_words_from_file: start_from (or None)
    fpos,                      \* get_words_from_file: characters read from f
    ffound,                    \* get_words_from_file: found
    filePc,                    \* get_words_from_file: position
    fileYielded,               \* the words get_words_from_file has produced
    statusPc,                  \* position of the Controller's main thread
    status                     \* the dictionary current_status is building

vars == <<words, thread_limit, view, controller, source, found_subdomains,
          checked_subdomains_count, latest, subdomain_threads, dns_working,
          dns_not_working, complete_bruteforcing, bfPc, idx, joining,
          drainLeft, attempt, checkerPc, listenerPc, baseProbed, lastBase,
          everExists, foundCalls,
          completedCalls, completedArg, firedInPeriod, unreported,
          letter_count, start_from, alphabet, letters, gi, genPc, comb,
          yielded, file_content, file_start_from, fpos, ffound, filePc,
          fileYielded, statusPc, status>>

genVars == <<letter_count, start_from, alphabet, letters, gi, genPc, comb,
             yielded>>
fileVars == <<file_content, file_start_from, fpos, ffound, filePc,
              fileYielded>>
\* what no thread of the engine writes
statusVars == <<statusPc, status>>
inputVars == <<words, thread_limit, view, controller, source, genVars,
               fileVars, statusVars>>
probeVars == <<baseProbed, lastBase, everExists>>
checkerVars == <<dns_working, dns_not_working, checkerPc, probeVars>>
bfVars == <<bfPc, idx, joining, drainLeft, subdomain_threads, latest,
            checked_subdomains_count, complete_bruteforcing,
            completedCalls, completedArg>>
attemptVars == <<attempt, found_subdomains, foundCalls>>
listenerVars == <<listenerPc>>
historyVars == <<firedInPeriod, unreported>>
engineVars == <<words, thread_limit, view, controller, source, checkerVars,
                bfVars, attemptVars, listenerVars, historyVars>>

\* Python's None, where a string is expected (a value no string equals)
None == <<"None">>

NoName == <<>>

Finished(i) == attempt[i] \in {"done", "crashed"}
InFlight == {i \in DOMAIN attempt : attempt[i] \in {"probe", "add", "notify"}}
Launched == {i \in DOMAIN attempt : attempt[i] # "unstarted"}

\* ------------------------------------------------------------------- Init
\* The state when main() has parsed its arguments: nothing is constructed.
EngineInit(W, withController) ==
    /\ source \in {"ok", "file_missing", "bad_resume"}
    /\ words \in IF source = "ok" THEN W ELSE {<<>>}
    /\ thread_limit \in 1..MaxThreadLimit
    /\ controller = withController
    /\ view \in IF withController THEN {TRUE} ELSE BOOLEAN
    /\ found_subdomains = {}
    /\ checked_subdomains_count = 0
    /\ latest = NoName
    /\ subdomain_threads = {}
    /\ dns_working = FALSE
    /\ dns_not_working = FALSE
    /\ complete_bruteforcing = FALSE
    /\ bfPc = "unstarted"
    /\ idx = 0
    /\ joining = 0
    /\ drainLeft = {}
    /\ attempt = [i \in 1..Len(words) |-> "unstarted"]
    /\ checkerPc = "unstarted"
    /\ listenerPc = [l \in Listeners |-> "unstarted"]
    /\ baseProbed = FALSE
    /\ lastBase = "none"
    /\ everExists = FALSE
    /\ foundCalls = [n \in Names |-> 0]
    /\ completedCalls = 0
    /\ completedArg = {}
    /\ firedInPeriod = [l \in Listeners |-> 0]
    /\ unreported = [l \in Listeners |-> FALSE]

\* generate_word is not running
GenIdle ==
    /\ letter_count = 0
    /\ start_from = <<>>
    /\ alphabet = <<>>
    /\ letters = <<>>
    /\ gi = 0
    /\ genPc = "idle"
    /\ comb = <<>>
    /\ yielded = <<>>

\* get_words_from_file is not running
FileIdle ==
    /\ file_content = <<>>
    /\ file_start_from = None
    /\ fpos = 0
    /\ ffound = FALSE
    /\ filePc = "idle"
    /\ fileYielded = <<>>

\* the dictionary of current_status before any of its values is read
NoStatus == [latest |-> NoName, count |-> 0, rate |-> 0, threads |-> 0]

\* the Controller's main thread has not reached its loop
StatusIdle ==
    /\ statusPc = "while"
    /\ status = NoStatus

Init ==
    /\ EngineInit(SeqsUpTo(Labels, MaxWords), FALSE)
    /\ GenIdle /\ FileIdle /\ StatusIdle

\* ------------------------------------------------------------- construction
\* main(): builds the word source, then Controller/Model.__init__.
\* generate_word runs eagerly and raises on a resume character outside the
\* alphabet; get_words_from_file is a generator function, so open() runs
\* only when bruteforce takes the first word.
main ==
    /\ bfPc = "unstarted"
    /\ IF source = "bad_resume"
       THEN /\ bfPc' = "not_constructed"
            /\ UNCHANGED <<dns_not_working, checkerPc, listenerPc>>
       ELSE /\ dns_not_working' = TRUE
            /\ checkerPc' = "test"
            /\ bfPc' = "for"
            /\ listenerPc' = IF controller /\ view
                             THEN [l \in Listeners |-> "outer"]
                             ELSE listenerPc
    /\ UNCHANGED <<inputVars, attemptVars, dns_working, probeVars, idx,
                   joining, drainLeft, subdomain_threads, latest,
                   checked_subdomains_count, complete_bruteforcing,
                   completedCalls, completedArg, historyVars>>

\* --------------------------------------------------------------- dns_checker
\* while not self.complete_bruteforcing.is_set():
dns_checker_test ==
    /\ checkerPc = "test"
    /\ checkerPc' = IF complete_bruteforcing THEN "sleep" ELSE "probe"
    /\ UNCHANGED <<inputVars, bfVars, attemptVars, listenerVars,
                   dns_working, dns_not_working, probeVars, historyVars>>

\* if Model.domain_exists(self.base_domain): the probe of the base domain
\* returns, raises socket.gaierror (caught), or raises something else, which
\* domain_exists does not catch and which ends the thread.
dns_checker_probe ==
    /\ checkerPc = "probe"
    /\ \E outcome \in {"EXISTS", "GAIERROR", "OTHER"} :
         /\ checkerPc' = CASE outcome = "EXISTS" -> "set_working"
                           [] outcome = "GAIERROR" -> "clear_working"
                           [] OTHER -> "crashed"
         /\ lastBase' = outcome
         /\ everExists' = (everExists \/ outcome = "EXISTS")
    /\ baseProbed' = TRUE
    /\ UNCHANGED <<inputVars, bfVars, attemptVars, listenerVars,
                   dns_working, dns_not_working, historyVars>>

\* a dns_checker that clears dns_not_working but never sets dns_working
dns_checker_set_working_forgotten ==
    /\ checkerPc = "set_working"
    /\ checkerPc' = "clear_not_working"
    /\ UNCHANGED <<inputVars, bfVars, attemptVars, listenerVars,
                   dns_working, dns_not_working, probeVars, historyVars>>

\* self.dns_working.set()
dns_checker_set_working ==
    /\ checkerPc = "set_working"
    /\ dns_working' = TRUE
    /\ firedInPeriod' = IF dns_working THEN firedInPeriod
                        ELSE [firedInPeriod EXCEPT !["dns_working"] = 0]
    /\ unreported' = IF dns_working THEN unreported
                      ELSE [unreported EXCEPT !["dns_working"] = TRUE]
    /\ checkerPc' = "clear_not_working"
    /\ UNCHANGED <<inputVars, bfVars, attemptVars, listenerVars,
                   dns_not_working, probeVars>>

\* self.dns_not_working.clear()
dns_checker_clear_not_working ==
    /\ checkerPc = "clear_not_working"
    /\ dns_not_working' = FALSE
    /\ checkerPc' = "test"
    /\ UNCHANGED <<inputVars, bfVars, attemptVars, listenerVars,
                   dns_working, probeVars, historyVars>>

\* self.dns_working.clear()
dns_checker_clear_working ==
    /\ checkerPc = "clear_working"
    /\ dns_working' = FALSE
    /\ checkerPc' = "set_not_working"
    /\ UNCHANGED <<inputVars, bfVars, attemptVars, listenerVars,
                   dns_not_working, probeVars, historyVars>>

\* self.dns_not_working.set()
dns_checker_set_not_working ==
    /\ checkerPc = "set_not_working"
    /\ dns_not_working' = TRUE
    /\ firedInPeriod' = IF dns_not_working THEN firedInPeriod
                        ELSE [firedInPeriod EXCEPT !["dns_not_working"] = 0]
    /\ unreported' = IF dns_not_working THEN unreported
                      ELSE [unreported EXCEPT !["dns_not_working"] = TRUE]
    /\ checkerPc' = "test"
    /\ UNCHANGED <<inputVars, bfVars, attemptVars, listenerVars,
                   dns_working, probeVars>>

\* time.sleep(0.1) after the loop, then the thread ends
dns_checker_sleep ==
    /\ checkerPc = "sleep"
    /\ checkerPc' = "done"
    /\ UNCHANGED <<inputVars, bfVars, attemptVars, listenerVars,
                   dns_working, dns_not_working, probeVars, historyVars>>

\* ---------------------------------------------------------------- bruteforce
\* for word in self.words: take the next word, or leave the loop.  With a
\* file source the first next() opens the file; a failure there is raised
\* inside the bruteforce thread and ends it.
bruteforce_for ==
    /\ bfPc = "for"
    /\ IF source = "file_missing"
       THEN /\ bfPc' = "crashed"
            /\ UNCHANGED <<idx, drainLeft>>
       ELSE IF idx < Len(words)
       THEN /\ idx' = idx + 1
            /\ bfPc' = "wait"
            /\ UNCHANGED drainLeft
       ELSE /\ bfPc' = "drain"
            /\ drainLeft' = subdomain_threads
            /\ UNCHANGED idx
    /\ UNCHANGED <<inputVars, checkerVars, attemptVars, listenerVars,
                   historyVars, joining, subdomain_threads, latest,
                   checked_subdomains_count, complete_bruteforcing,
                   completedCalls, completedArg>>

\* a loop that does not wait for the health event
bruteforce_wait_nogate ==
    /\ bfPc = "wait"
    /\ bfPc' = "start"
    /\ UNCHANGED <<inputVars, checkerVars, attemptVars, listenerVars,
                   historyVars, idx, joining, drainLeft, subdomain_threads,
                   latest, checked_subdomains_count, complete_bruteforcing,
                   completedCalls, completedArg>>

\* self.dns_working.wait()
bruteforce_wait ==
    /\ bfPc = "wait"
    /\ dns_working
    /\ bfPc' = "start"
    /\ UNCHANGED <<inputVars, checkerVars, attemptVars, listenerVars,
                   historyVars, idx, joining, drainLeft, subdomain_threads,
                   latest, checked_subdomains_count, complete_bruteforcing,
                   completedCalls, completedArg>>

\* self.subdomain_threads.add(Model.start_daemon_thread(self.check_domain, ...))
bruteforce_start ==
    /\ bfPc = "start"
    /\ attempt' = [attempt EXCEPT ![idx] = "probe"]
    /\ subdomain_threads' = subdomain_threads \cup {idx}
    /\ bfPc' = "limiter"
    /\ UNCHANGED <<inputVars, checkerVars, listenerVars, historyVars,
                   found_subdomains, foundCalls, idx, joining, drainLeft,
                   latest, checked_subdomains_count, complete_bruteforcing,
                   completedCalls, completedArg>>

\* thread_limiter: while len(self.subdomain_threads) > self.thread_limit:
\*                     thread = self.subdomain_threads.pop()
thread_limiter_pop ==
    /\ bfPc = "limiter"
    /\ IF Cardinality(subdomain_threads) > thread_limit
       THEN \E t \in subdomain_threads :
                /\ subdomain_threads' = subdomain_threads \ {t}
                /\ joining' = t
                /\ bfPc' = "join"
       ELSE /\ bfPc' = "latest"
            /\ UNCHANGED <<subdomain_threads, joining>>
    /\ UNCHANGED <<inputVars, checkerVars, attemptVars, listenerVars,
                   historyVars, idx, drainLeft, latest,
                   checked_subdomains_count, complete_bruteforcing,
                   completedCalls, completedArg>>

\* thread_limiter that drops the popped thread without waiting for it
thread_limiter_join_nowait ==
    /\ bfPc = "join"
    /\ joining' = 0
    /\ bfPc' = "limiter"
    /\ UNCHANGED <<inputVars, checkerVars, attemptVars, listenerVars,
                   historyVars, idx, drainLeft, subdomain_threads, latest,
                   checked_subdomains_count, complete_bruteforcing,
                   completedCalls, completedArg>>

\* thread_limiter: thread.join()
thread_limiter_join ==
    /\ bfPc = "join"
    /\ Finished(joining)
    /\ joining' = 0
    /\ bfPc' = "limiter"
    /\ UNCHANGED <<inputVars, checkerVars, attemptVars, listenerVars,
                   historyVars, idx, drainLeft, subdomain_threads, latest,
                   checked_subdomains_count, complete_bruteforcing,
                   completedCalls, completedArg>>

\* self.latest = subdomain
bruteforce_latest ==
    /\ bfPc = "latest"
    /\ latest' = subdomain(words[idx])
    /\ bfPc' = "count"
    /\ UNCHANGED <<inputVars, checkerVars, attemptVars, listenerVars,
                   historyVars, idx, joining, drainLeft, subdomain_threads,
                   checked_subdomains_count, complete_bruteforcing,
                   completedCalls, completedArg>>

\* a loop body that forgets the increment
bruteforce_count_skipped ==
    /\ bfPc = "count"
    /\ bfPc' = "for"
    /\ UNCHANGED <<inputVars, checkerVars, attemptVars, listenerVars,
                   historyVars, idx, joining, drainLeft, subdomain_threads,
                   latest, checked_subdomains_count, complete_bruteforcing,
                   completedCalls, completedArg>>

\* self.checked_subdomains_count += 1
bruteforce_count ==
    /\ bfPc = "count"
    /\ checked_subdomains_count' = checked_subdomains_count + 1
    /\ bfPc' = "for"
    /\ UNCHANGED <<inputVars, checkerVars, attemptVars, listenerVars,
                   historyVars, idx, joining, drainLeft, subdomain_threads,
                   latest, complete_bruteforcing, completedCalls,
                   completedArg>>

\* a bruteforce that sets the flag without the final join loop
bruteforce_drain_skipped ==
    /\ bfPc = "drain"
    /\ bfPc' = "set_complete"
    /\ UNCHANGED <<inputVars, checkerVars, attemptVars, listenerVars,
                   historyVars, idx, joining, drainLeft, subdomain_threads,
                   latest, checked_subdomains_count, complete_bruteforcing,
                   completedCalls, completedArg>>

\* for thread in self.subdomain_threads: the loop takes the next thread of
\* the set (in the set's arbitrary order), or ends.
bruteforce_drain ==
    /\ bfPc = "drain"
    /\ IF drainLeft # {}
       THEN \E t \in drainLeft :
                /\ drainLeft' = drainLeft \ {t}
                /\ joining' = t
                /\ bfPc' = "drain_join"
       ELSE /\ bfPc' = "set_complete"
            /\ UNCHANGED <<drainLeft, joining>>
    /\ UNCHANGED <<inputVars, checkerVars, attemptVars, listenerVars,
                   historyVars, idx, subdomain_threads, latest,
                   checked_subdomains_count, complete_bruteforcing,
                   completedCalls, completedArg>>

\* a final loop that does not wait for the thread it visits
bruteforce_drain_join_nowait ==
    /\ bfPc = "drain_join"
    /\ joining' = 0
    /\ bfPc' = "drain"
    /\ UNCHANGED <<inputVars, checkerVars, attemptVars, listenerVars,
                   historyVars, idx, drainLeft, subdomain_threads, latest,
                   checked_subdomains_count, complete_bruteforcing,
                   completedCalls, completedArg>>

\* thread.join() of the final loop
bruteforce_drain_join ==
    /\ bfPc = "drain_join"
    /\ Finished(joining)
    /\ joining' = 0
    /\ bfPc' = "drain"
    /\ UNCHANGED <<inputVars, checkerVars, attemptVars, listenerVars,
                   historyVars, idx, drainLeft, subdomain_threads, latest,
                   checked_subdomains_count, complete_bruteforcing,
                   completedCalls, completedArg>>

\* self.complete_bruteforcing.set()
bruteforce_set_complete ==
    /\ bfPc = "set_complete"
    /\ complete_bruteforcing' = TRUE
    /\ bfPc' = "completed"
    /\ UNCHANGED <<inputVars, checkerVars, attemptVars, listenerVars,
                   historyVars, idx, joining, drainLeft, subdomain_threads,
                   latest, checked_subdomains_count, completedCalls,
                   completedArg>>

\* if self.view: self.view.completed(self.found_subdomains)
bruteforce_completed ==
    /\ bfPc = "completed"
    /\ IF view
       THEN /\ completedCalls' = completedCalls + 1
            /\ completedArg' = found_subdomains
       ELSE UNCHANGED <<completedCalls, completedArg>>
    /\ bfPc' = "done"
    /\ UNCHANGED <<inputVars, checkerVars, attemptVars, listenerVars,
                   historyVars, idx, joining, drainLeft, subdomain_threads,
                   latest, checked_subdomains_count, complete_bruteforcing>>

\* --------------------------------------------------------------- check_domain
\* Model.domain_exists(domain): try gethostbyname; except socket.gaierror
domain_exists(name) ==
    CASE gethostbyname(name) = "EXISTS" -> "True"
      [] gethostbyname(name) = "GAIERROR" -> "False"
      [] OTHER -> "raise"

\* if Model.domain_exists(domain):
check_domain_probe(i) ==
    /\ attempt[i] = "probe"
    /\ attempt' = [attempt EXCEPT ![i] =
                     CASE domain_exists(subdomain(words[i])) = "True" -> "add"
                       [] domain_exists(subdomain(words[i])) = "False" -> "done"
                       [] OTHER -> "crashed"]
    /\ UNCHANGED <<inputVars, checkerVars, bfVars, listenerVars,
                   historyVars, found_subdomains, foundCalls>>

\* self.found_subdomains.add(domain)
check_domain_add(i) ==
    /\ attempt[i] = "add"
    /\ found_subdomains' = found_subdomains \cup {subdomain(words[i])}
    /\ attempt' = [attempt EXCEPT ![i] = IF view THEN "notify" ELSE "done"]
    /\ UNCHANGED <<inputVars, checkerVars, bfVars, listenerVars,
                   historyVars, foundCalls>>

\* self.view.found_subdomain(domain)
check_domain_notify(i) ==
    /\ attempt[i] = "notify"
    /\ foundCalls' = [foundCalls EXCEPT ![subdomain(words[i])] = @ + 1]
    /\ attempt' = [attempt EXCEPT ![i] = "done"]
    /\ UNCHANGED <<inputVars, checkerVars, bfVars, listenerVars,
                   historyVars, found_subdomains>>

\* ------------------------------------------------------------- event_listener
Event(l) == IF l = "dns_working" THEN dns_working ELSE dns_not_working

\* while not completed.is_set():
event_listener_outer(l) ==
    /\ listenerPc[l] = "outer"
    /\ listenerPc' = [listenerPc EXCEPT ![l] =
                        IF complete_bruteforcing THEN "done" ELSE "inner"]
    /\ UNCHANGED <<inputVars, checkerVars, bfVars, attemptVars, historyVars>>

\* a listener that does not wait for the event to be cleared
event_listener_inner_nowait(l) ==
    /\ listenerPc[l] = "inner"
    /\ listenerPc' = [listenerPc EXCEPT ![l] = "wait"]
    /\ UNCHANGED <<inputVars, checkerVars, bfVars, attemptVars, historyVars>>

\* while event.is_set(): time.sleep(0.1)
event_listener_inner(l) ==
    /\ listenerPc[l] = "inner"
    /\ ~Event(l)
    /\ listenerPc' = [listenerPc EXCEPT ![l] = "wait"]
    /\ UNCHANGED <<inputVars, checkerVars, bfVars, attemptVars, historyVars>>

\* event.wait(1): returns when the event is set or after the timeout
event_listener_wait(l) ==
    /\ listenerPc[l] = "wait"
    /\ listenerPc' = [listenerPc EXCEPT ![l] = "check"]
    /\ UNCHANGED <<inputVars, checkerVars, bfVars, attemptVars, historyVars>>

\* if event.is_set():
event_listener_check(l) ==
    /\ listenerPc[l] = "check"
    /\ listenerPc' = [listenerPc EXCEPT ![l] =
                        IF Event(l) THEN "action" ELSE "outer"]
    /\ UNCHANGED <<inputVars, checkerVars, bfVars, attemptVars, historyVars>>

\* action(): view.dns_working() or view.dns_not_working()
event_listener_action(l) ==
    /\ listenerPc[l] = "action"
    /\ firedInPeriod' = IF Event(l)
                        THEN [firedInPeriod EXCEPT ![l] = @ + 1]
                        ELSE firedInPeriod
    /\ unreported' = [unreported EXCEPT ![l] = FALSE]
    /\ listenerPc' = [listenerPc EXCEPT ![l] = "outer"]
    /\ UNCHANGED <<inputVars, checkerVars, bfVars, attemptVars>>

\* ------------------------------------------------------------ specifications
dns_checker ==
    \/ dns_checker_test
    \/ dns_checker_probe
    \/ dns_checker_set_working
    \/ dns_checker_clear_not_working
    \/ dns_checker_clear_working
    \/ dns_checker_set_not_working
    \/ dns_checker_sleep

bruteforce ==
    \/ bruteforce_for
    \/ bruteforce_wait
    \/ bruteforce_start
    \/ thread_limiter_pop
    \/ thread_limiter_join
    \/ bruteforce_latest
    \/ bruteforce_count
    \/ bruteforce_drain
    \/ bruteforce_drain_join
    \/ bruteforce_set_complete
    \/ bruteforce_completed

check_domain ==
    \E i \in DOMAIN attempt :
        \/ check_domain_probe(i)
        \/ check_domain_add(i)
        \/ check_domain_notify(i)

event_listener ==
    \E l \in Listeners :
        \/ event_listener_outer(l)
        \/ event_listener_inner(l)
        \/ event_listener_wait(l)
        \/ event_listener_check(l)
        \/ event_listener_action(l)

\* A Model constructed directly (as tests.py does): no listener threads.
Next == main \/ dns_checker \/ bruteforce \/ check_domain

Spec == Init /\ [][Next]_vars

\* The whole program, run by a Controller with a view attached, on some
\* candidate lists.
ControllerWords ==
    {<<>>, << <<"a">> >>, << <<"a">>, <<"b">> >>, << <<"c">>, <<"a">> >>}

InitController ==
    /\ EngineInit(ControllerWords, TRUE)
    /\ GenIdle /\ FileIdle /\ StatusIdle

NextController == Next \/ event_listener

SpecController == InitController /\ [][NextController]_vars

\* A Model under a fair scheduler: a thread that can take a step eventually
\* takes one (the resolver answers every probe, the observer returns from
\* every callback).
check_domain_thread(i) ==
    /\ i \in DOMAIN attempt
    /\ \/ check_domain_probe(i)
       \/ check_domain_add(i)
       \/ check_domain_notify(i)

Fairness ==
    /\ WF_vars(main)
    /\ WF_vars(dns_checker)
    /\ WF_vars(bruteforce)
    /\ \A i \in UNION {DOMAIN w : w \in ControllerWords} :
          WF_vars(check_domain_thread(i))

InitFair ==
    /\ EngineInit(ControllerWords, FALSE)
    /\ GenIdle /\ FileIdle /\ StatusIdle

SpecFair == InitFair /\ [][Next]_vars /\ Fairness

\* ------------------------------------------------ Controller: status on demand
\* Controller.__init__, once the Model and the listeners are started:
\*     while not self.model.complete_bruteforcing.is_set():
controller_while ==
    /\ controller /\ view
    /\ bfPc \notin {"unstarted", "not_constructed"}
    /\ statusPc = "while"
    /\ statusPc' = IF complete_bruteforcing THEN "done" ELSE "input"
    /\ UNCHANGED <<engineVars, genVars, fileVars, status>>

\* input() returns (or KeyboardInterrupt is raised) and current_status
\* starts to build its dictionary, one value after the other:
\*     "latest subdomain": self.model.latest
current_status_latest ==
    /\ statusPc = "input"
    /\ status' = [NoStatus EXCEPT !.latest = latest]
    /\ statusPc' = "count"
    /\ UNCHANGED <<engineVars, genVars, fileVars>>

\*     "count": self.model.checked_subdomains_count
current_status_count ==
    /\ statusPc = "count"
    /\ status' = [status EXCEPT !.count = checked_subdomains_count]
    /\ statusPc' = "rate"
    /\ UNCHANGED <<engineVars, genVars, fileVars>>

\*     "subdomains/second": round(self.model.checked_subdomains_count / ...)
\* Time is not modelled: the value kept is the count the rate is computed
\* from, which is read again.
current_status_rate ==
    /\ statusPc = "rate"
    /\ status' = [status EXCEPT !.rate = checked_subdomains_count]
    /\ statusPc' = "threads"
    /\ UNCHANGED <<engineVars, genVars, fileVars>>

\*     "subdomain threads": len(self.model.subdomain_threads)
current_status_threads ==
    /\ statusPc = "threads"
    /\ status' = [status EXCEPT !.threads = Cardinality(subdomain_threads)]
    /\ statusPc' = "print"
    /\ UNCHANGED <<engineVars, genVars, fileVars>>

\* self.view.print_status(...): the dictionary is printed and dropped
print_status ==
    /\ statusPc = "print"
    /\ status' = NoStatus
    /\ statusPc' = "while"
    /\ UNCHANGED <<engineVars, genVars, fileVars>>

current_status ==
    \/ current_status_latest
    \/ current_status_count
    \/ current_status_rate
    \/ current_status_threads

\* The Model and the Controller's main thread.  The event_listener threads
\* write nothing that current_status reads and are left out.
StatusWords == {<<>>, << <<"a">> >>, << <<"a">>, <<"b">> >>}

InitStatus ==
    /\ EngineInit(StatusWords, TRUE)
    /\ GenIdle /\ FileIdle /\ StatusIdle

NextStatus == Next \/ controller_while \/ current_status \/ print_status

SpecStatus == InitStatus /\ [][NextStatus]_vars

\* ------------------------------------------------- more candidates than slots
\* A Model on lists long enough for thread_limiter to join a thread while
\* words remain to be taken.
ObserverWords ==
    {<<>>, << <<"a">>, <<"a">> >>, << <<"a">>, <<"b">>, <<"c">> >>,
     << <<"b">>, <<"a">>, <<"a">> >>}

InitObserver ==
    /\ EngineInit(ObserverWords, FALSE)
    /\ GenIdle /\ FileIdle /\ StatusIdle

SpecObserver == InitObserver /\ [][Next]_vars

\* -------------------------------------------------------------- generate_word
Chars == {"a", "b", "c", "z"}

Alphabets == {<<"a", "b">>, <<"a", "b", "c">>, <<"b", "a">>}

Range(f) == {f[k] : k \in DOMAIN f}

\* alphabet.index(first): 0-based position of the first occurrence; the
\* caller handles the ValueError of a character that does not occur.
index(alph, first) ==
    (CHOOSE k \in DOMAIN alph :
        alph[k] = first /\ \A j \in 1..(k - 1) : alph[j] # first) - 1

\* a slice that starts after the resume character
all_chars_exclusive(alph, first) ==
    SubSeq(alph, index(alph, first) + 2, Len(alph))

\* alphabet[alphabet.index(first):]
all_chars(alph, first) == SubSeq(alph, index(alph, first) + 1, Len(alph))

\* for i in range(letter_count): one iteration of the loop, or its end.
\* start_from[i] raises IndexError past the end of start_from (caught) and
\* TypeError when start_from is None (not caught); alphabet.index raises
\* ValueError (not caught).
generate_word_loop ==
    /\ genPc = "loop"
    /\ IF gi < letter_count
       THEN IF start_from = None
            THEN /\ genPc' = "error"
                 /\ UNCHANGED <<letters, gi, comb>>
            ELSE IF gi + 1 > Len(start_from)
            THEN /\ letters' = Append(letters, alphabet)
                 /\ gi' = gi + 1
                 /\ UNCHANGED <<genPc, comb>>
            ELSE IF start_from[gi + 1] \notin Range(alphabet)
            THEN /\ genPc' = "error"
                 /\ UNCHANGED <<letters, gi, comb>>
            ELSE /\ letters' = Append(letters,
                                      all_chars(alphabet, start_from[gi + 1]))
                 /\ gi' = gi + 1
                 /\ UNCHANGED <<genPc, comb>>
       ELSE /\ genPc' = IF \E k \in DOMAIN letters : letters[k] = <<>>
                        THEN "done" ELSE "product"
            /\ comb' = [k \in DOMAIN letters |-> 1]
            /\ UNCHANGED <<letters, gi>>
    /\ UNCHANGED <<engineVars, statusVars, fileVars, letter_count,
                   start_from, alphabet,
                   yielded>>

\* The position of the product that follows c: the rightmost pool that has
\* a next element advances and the pools to its right start again.
Advance(c, pools) ==
    LET movable == {k \in DOMAIN c : c[k] < Len(pools[k])}
        m == CHOOSE k \in movable : \A j \in movable : j <= k
    IN  [k \in DOMAIN c |-> IF k < m THEN c[k]
                            ELSE IF k = m THEN c[k] + 1
                            ELSE 1]

\* "".join(comb) for comb in itertools.product(*letters): the next word
generate_word_next ==
    /\ genPc = "product"
    /\ yielded' = Append(yielded, [k \in DOMAIN comb |-> letters[k][comb[k]]])
    /\ IF \E k \in DOMAIN comb : comb[k] < Len(letters[k])
       THEN /\ comb' = Advance(comb, letters)
            /\ UNCHANGED genPc
       ELSE /\ genPc' = "done"
            /\ UNCHANGED comb
    /\ UNCHANGED <<engineVars, statusVars, fileVars, letter_count,
                   start_from, alphabet,
                   letters, gi>>

\* A call generate_word(letter_count, start_from, alphabet)
InitGen ==
    /\ EngineInit({<<>>}, FALSE)
    /\ source = "ok"
    /\ thread_limit = 1
    /\ view = FALSE
    /\ letter_count \in 0..MaxLetters
    /\ start_from \in SeqsUpTo(Chars, MaxResume) \cup {None}
    /\ alphabet \in Alphabets
    /\ letters = <<>>
    /\ gi = 0
    /\ genPc = "loop"
    /\ comb = <<>>
    /\ yielded = <<>>
    /\ FileIdle
    /\ StatusIdle

NextGen == generate_word_loop \/ generate_word_next

SpecGen == InitGen /\ [][NextGen]_vars

\* -------------------------------------------------------- get_words_from_file
FileChars == {"x", "y", " ", "\n"}

FileStartFroms ==
    {None, <<>>, <<"x">>, <<"y">>, <<"x", "y">>, <<" ", "x">>}

\* for line in f: the line that starts after position p ends with its
\* newline, or with the file
RECURSIVE LineEnd(_, _)
LineEnd(c, p) ==
    IF p + 1 >= Len(c) \/ c[p + 1] = "\n" THEN p + 1 ELSE LineEnd(c, p + 1)

\* a word list that keeps the solid of the line
line_word_unstripped(line) == line

\* word = line.strip(" \n")
line_word(line) == strip(line)

\* One iteration of the loop: read a line, strip it, note the start_from
\* word, yield the word if start_from is None or has been found.
get_words_from_file_line ==
    /\ filePc = "for"
    /\ fpos < Len(file_content)
    /\ LET e == LineEnd(file_content, fpos)
           word == line_word(SubSeq(file_content, fpos + 1, e))
           found == ffound \/ word = file_start_from
       IN  /\ fpos' = e
           /\ ffound' = found
           /\ fileYielded' = IF file_start_from = None \/ found
                             THEN Append(fileYielded, word)
                             ELSE fileYielded
    /\ UNCHANGED <<engineVars, statusVars, genVars, file_content,
                   file_start_from, filePc>>

\* the file is exhausted: the with block closes it and the generator ends
get_words_from_file_end ==
    /\ filePc = "for"
    /\ fpos = Len(file_content)
    /\ filePc' = "done"
    /\ UNCHANGED <<engineVars, statusVars, genVars, file_content,
                   file_start_from, fpos,
                   ffound, fileYielded>>

\* A call get_words_from_file(file_name, start_from) consumed to the end
InitFile ==
    /\ EngineInit({<<>>}, FALSE)
    /\ source = "ok"
    /\ thread_limit = 1
    /\ view = FALSE
    /\ GenIdle
    /\ StatusIdle
    /\ file_content \in SeqsUpTo(FileChars, MaxFile)
    /\ file_start_from \in FileStartFroms
    /\ fpos = 0
    /\ ffound = FALSE
    /\ filePc = "for"
    /\ fileYielded = <<>>

NextFile == get_words_from_file_line \/ get_words_from_file_end

SpecFile == InitFile /\ [][NextFile]_vars

\* ===================================================================== claims
Exists(i) == gethostbyname(subdomain(words[i])) = "EXISTS"

\* C1: once bruteforce has finished (the completion flag is set),
\* found_subdomains is exactly the set of candidate names whose probe
\* returned EXISTS: none lost, none extra, whatever the interleaving.
C1_FoundIsExactlyTheConfirmed ==
    complete_bruteforcing =>
        found_subdomains = {subdomain(words[i]) :
                              i \in {j \in DOMAIN attempt : Exists(j)}}

\* Two candidates, one confirmed and one not, and the confirmed one was not
\* the last to finish its probe being joined by thread_limiter.
C1_Witness ==
    /\ bfPc = "done"
    /\ Len(words) >= 2
    /\ found_subdomains # {}
    /\ \E i \in DOMAIN attempt : ~Exists(i)
    /\ thread_limit < Len(words)

\* The states view.completed may be called in, and what holds after the call.
C2_CompletedState ==
    /\ completedCalls <= 1
    /\ (bfPc = "done" /\ view) => completedCalls = 1
    /\ completedCalls = 1 =>
          /\ Launched = DOMAIN attempt
          /\ \A i \in DOMAIN attempt : Finished(i)
          /\ completedArg = found_subdomains

\* C2: with a view attached, view.completed is called at most once, exactly
\* once when bruteforce has ended, only when every word has been dispatched
\* and every attempt has finished; after the call neither found_subdomains
\* nor the found callbacks change, so the set handed to completed stays equal
\* to found_subdomains.
C2_CompletedOnceAfterAllAttempts ==
    /\ []C2_CompletedState
    /\ [][completedCalls = 1 =>
            /\ found_subdomains' = found_subdomains
            /\ foundCalls' = foundCalls
            /\ completedCalls' = 1]_vars

C2_Witness ==
    /\ completedCalls = 1
    /\ Len(words) >= 2
    /\ thread_limit < Len(words)
    /\ completedArg # {}
    /\ \E n \in Names : foundCalls[n] > 0

\* C3: the number of in-flight resolution attempts never exceeds
\* thread_limit.
C3_InFlightWithinLimit == Cardinality(InFlight) <= thread_limit

\* C4: while the health state is UNHEALTHY (dns_working clear and
\* dns_not_working set) bruteforce launches no attempt and does not
\* increment checked_subdomains_count.
C4_NoDispatchWhileUnhealthy ==
    [][(~dns_working /\ dns_not_working) =>
          /\ Launched' = Launched
          /\ checked_subdomains_count' = checked_subdomains_count]_vars

C6_FoundCallbackOncePerName ==
    /\ \A n \in Names : foundCalls[n] <= 1
    /\ (view /\ bfPc = "done") =>
          \A n \in found_subdomains : foundCalls[n] = 1

\* At most one callback of a listener within the current period of its event.
C7_OncePerPeriod == \A l \in Listeners : firedInPeriod[l] <= 1

\* C7: within one maximal period in which an event stays set (dns_not_working
\* for paused, dns_working for resumed) the listener's callback fires at most
\* once, however often dns_checker sets the event again; and every callback
\* answers a change of its event from clear to set that no earlier callback
\* has answered (at most once per transition).
C7_ListenerFiresOncePerPeriod ==
    /\ []C7_OncePerPeriod
    /\ [][\A l \in Listeners :
            (listenerPc[l] = "action" /\ listenerPc'[l] # "action")
                => unreported[l]]_vars

\* Paused has fired in the current UNHEALTHY period and dns_checker is about
\* to set dns_not_working again; resumed has fired in an earlier period.
C7_Witness ==
    /\ dns_not_working
    /\ firedInPeriod["dns_not_working"] = 1
    /\ firedInPeriod["dns_working"] = 1
    /\ checkerPc = "set_not_working"

\* C8: a probe that fails for any reason is absorbed: a failing candidate is
\* not recorded as found, and no failure of a base-domain probe ends the
\* dns_checker loop before completion.
C8_ProbeFailureAbsorbed ==
    /\ \A i \in DOMAIN attempt :
          attempt[i] = "crashed" => subdomain(words[i]) \notin found_subdomains
    /\ checkerPc # "crashed"

\* C9: with a failing candidate source the engine does no resolution work
\* (no base-domain probe, no dispatch) and is not left running with a dead
\* bruteforce thread that can never set the completion flag.
C9_FailingSourceIsFatalBeforeStart ==
    source # "ok" =>
        /\ ~baseProbed
        /\ Launched = {}
        /\ bfPc # "crashed"

RECURSIVE Pow(_, _)
Pow(b, e) == IF e = 0 THEN 1 ELSE b * Pow(b, e - 1)

\* position of a character in the alphabet (its rank in the order)
Rank(c) == CHOOSE k \in DOMAIN alphabet : alphabet[k] = c

\* u precedes v in the lexicographic order induced by the alphabet
LexLess(u, v) ==
    \E k \in DOMAIN u :
        /\ Rank(u[k]) < Rank(v[k])
        /\ \A j \in 1..(k - 1) : u[j] = v[j]

\* the words the claim describes
Described ==
    {w \in [1..letter_count -> Range(alphabet)] :
        \A k \in 1..letter_count :
            k <= Len(start_from) => Rank(w[k]) >= Rank(start_from[k])}

\* start_from is usable: a string whose characters, as far as the word
\* length reaches, belong to the alphabet
ResumeValid ==
    /\ start_from # None
    /\ \A k \in 1..letter_count :
          k <= Len(start_from) => start_from[k] \in Range(alphabet)

\* C10: for a usable start_from, generate_word yields exactly the described
\* words, each once, in increasing lexicographic order; with an empty
\* start_from that is all |alphabet|^n words; the first word is start_from
\* padded (to letter_count) with the first letter of the alphabet; and the
\* generator fails only when start_from is not usable.
C10_GenerateWordYield ==
    /\ genPc = "error" => ~ResumeValid
    /\ (genPc = "done" /\ ResumeValid) =>
          /\ Range(yielded) = Described
          /\ Len(yielded) = Cardinality(Described)
          /\ \A k \in 1..(Len(yielded) - 1) : LexLess(yielded[k], yielded[k + 1])
          /\ start_from = <<>> => Len(yielded) = Pow(Len(alphabet), letter_count)
          /\ yielded # <<>>
          /\ yielded[1] = [k \in 1..letter_count |->
                             IF k <= Len(start_from) THEN start_from[k]
                             ELSE alphabet[1]]
    /\ (genPc \in {"loop", "product"} /\ ResumeValid) =>
          \A k \in DOMAIN yielded : yielded[k] \in Described

\* generate_word(2, "b", "abc") has yielded its six words
C10_Witness ==
    /\ genPc = "done"
    /\ letter_count = 2
    /\ start_from = <<"b">>
    /\ alphabet = <<"a", "b", "c">>
    /\ yielded = << <<"b", "a">>, <<"b", "b">>, <<"b", "c">>,
                    <<"c", "a">>, <<"c", "b">>, <<"c", "c">> >>

\* C11: resuming at a start_from of the full word length yields no word that
\* precedes start_from and every word that is start_from or follows it in
\* lexicographic order.
C11_ResumeSkipsOnlyEarlierWords ==
    (genPc = "done" /\ ResumeValid /\ Len(start_from) = letter_count) =>
        Range(yielded) =
            {w \in [1..letter_count -> Range(alphabet)] :
                w = start_from \/ LexLess(start_from, w)}

\* The lines of the file as the claim describes them: the text between
\* newlines, each stripped of solid and newlines.
Newlines == {p \in DOMAIN file_content : file_content[p] = "\n"}

NumLines ==
    Cardinality(Newlines)
      + (IF file_content # <<>> /\ file_content[Len(file_content)] # "\n"
         THEN 1 ELSE 0)

\* the position of the k-th newline (0 for k = 0, the end of the file past
\* the last newline)
NewlineAt(k) ==
    IF k = 0 THEN 0
    ELSE IF k > Cardinality(Newlines) THEN Len(file_content) + 1
    ELSE CHOOSE p \in Newlines : Cardinality({q \in Newlines : q < p}) = k - 1

StrippedLine(k) ==
    LET raw == SubSeq(file_content, NewlineAt(k - 1) + 1, NewlineAt(k) - 1)
        solid == {p \in DOMAIN raw : raw[p] # " "}
    IN  IF solid = {} THEN <<>>
        ELSE SubSeq(raw,
                    CHOOSE p \in solid : \A q \in solid : p <= q,
                    CHOOSE p \in solid : \A q \in solid : q <= p)

\* the first line equal to the marker (NumLines + 1 if there is none)
FirstMatch ==
    LET hits == {k \in 1..NumLines : StrippedLine(k) = file_start_from}
    IN  IF hits = {} THEN NumLines + 1
        ELSE CHOOSE k \in hits : \A j \in hits : k <= j

\* C12: get_words_from_file yields the stripped lines in file order: all of
\* them without a marker; with a marker, the lines from the first one equal
\* to the marker (inclusive) to the end, and nothing when no line equals it.
C12_FileWordsFromMarker ==
    filePc = "done" =>
        LET first == IF file_start_from = None THEN 1 ELSE FirstMatch
        IN  fileYielded = [k \in 1..(NumLines - first + 1) |->
                              StrippedLine(first + k - 1)]

\* " x\ny" read from the marker "x": the blank is stripped, the marker line
\* is included and the last line has no newline
C12_Witness ==
    /\ filePc = "done"
    /\ file_content = <<" ", "x", "\n", "y">>
    /\ file_start_from = <<"x">>
    /\ fileYielded = << <<"x">>, <<"y">> >>

\* The states the completion flag may be set in.
C13_CompletionState ==
    complete_bruteforcing =>
        /\ idx = Len(words)
        /\ Launched = DOMAIN attempt
        /\ \A i \in DOMAIN attempt : Finished(i)

\* C13: complete_bruteforcing is a one-shot latch: it is set only when the
\* candidate source is exhausted and every attempt ever launched has
\* finished, and once set it is never cleared.
C13_CompletionFlagIsLatch ==
    /\ []C13_CompletionState
    /\ [][complete_bruteforcing => complete_bruteforcing']_vars

\* The flag is set after a run in which thread_limiter joined one attempt
\* and the final loop another.
C13_Witness ==
    /\ complete_bruteforcing
    /\ Len(words) >= 2
    /\ thread_limit < Len(words)
    /\ subdomain_threads # {}

\* C16: once the Model is constructed, exactly one of dns_working (HEALTHY)
\* and dns_not_working (UNHEALTHY) is set in every state.
C16_ExactlyOneHealthState ==
    checkerPc # "unstarted" => (dns_working # dns_not_working)

\* C17: the health state starts UNHEALTHY, and until a probe of the base
\* domain has returned EXISTS no attempt is launched and
\* checked_subdomains_count stays 0.
C17_NoDispatchBeforeHealthConfirmed ==
    (checkerPc # "unstarted" /\ ~everExists) =>
        /\ ~dns_working
        /\ dns_not_working
        /\ Launched = {}
        /\ checked_subdomains_count = 0

\* bruteforce holds a word and waits while the only probes so far failed
C17_Witness ==
    /\ ~everExists
    /\ lastBase = "GAIERROR"
    /\ checkerPc = "probe"
    /\ bfPc = "wait"
    /\ idx = 1

\* C14: with a working (finite) candidate source, if from some point on
\* every probe of the base domain returns EXISTS then, under fair scheduling,
\* bruteforce dispatches every candidate, every attempt finishes and the
\* completion flag is set.
C14_EventuallyComplete ==
    (source = "ok" /\ <>[](lastBase = "EXISTS")) =>
        <>(/\ complete_bruteforcing
           /\ Launched = DOMAIN attempt
           /\ \A i \in DOMAIN attempt : Finished(i))

\* A run of two candidates is complete; the base domain failed to resolve
\* at first (the paused/resumed history shows in dns_not_working) and
\* resolves at the end.
C14_Witness ==
    /\ bfPc = "done"
    /\ checkerPc = "done"
    /\ Len(words) = 2
    /\ thread_limit = 1
    /\ lastBase = "EXISTS"

\* C15: after the completion flag is set, dns_checker and both
\* event_listener threads eventually exit.  Once dns_checker has exited no
\* event changes any more, so no listener may then be in its inner loop
\* waiting for a set event to be cleared: it would never exit.
C15_LoopsExitAfterCompletion ==
    (complete_bruteforcing /\ checkerPc \in {"done", "crashed"}) =>
        \A l \in Listeners : ~(listenerPc[l] = "inner" /\ Event(l))

\* C18: every change of the health state before completion is followed by
\* its callback: when a listener has exited, no change of its event from
\* clear to set is left without a callback.
C18_EveryTransitionReported ==
    \A l \in Listeners : listenerPc[l] = "done" => ~unreported[l]

\* C19: a status snapshot is consistent: the count and the latest candidate
\* change as one step, so a snapshot holding count k holds as latest the
\* k-th dispatched candidate (none when k = 0).
C19_SnapshotConsistent ==
    statusPc \in {"rate", "threads", "print"} =>
        status.latest = IF status.count = 0
                        THEN NoName
                        ELSE subdomain(words[status.count])

\* C20: a found callback that has not returned does not stall the
\* Dispatcher: bruteforce is never waiting for a thread that is inside
\* view.found_subdomain while candidates remain to be dispatched.
C20_CallbackDoesNotStallDispatcher ==
    ~(/\ bfPc = "join"
      /\ attempt[joining] = "notify"
      /\ idx < Len(words))

====
